---- MODULE Spec2Model ----
(***************************************************************************)
(* A model of the CoPylot plotting helpers (ContourPlotUtils, CorPlotUtils,*)
(* DistPlotUtils, MapPlotUtils, SplitPlotUtils).                           *)
(*                                                                         *)
(* The state is the world a call runs in: the figures that exist (figs),   *)
(* the image files written so far (files), the call being made (args), its *)
(* outcome (ret) and whether the call has run (pc).  Every helper is one   *)
(* action that models the whole function body, including the behaviour of  *)
(* the plotting library calls it makes (subplots, scatter, axvline,        *)
(* legend, savefig, ...) as far as the properties below depend on it.      *)
(***************************************************************************)
EXTENDS Integers, Sequences, FiniteSets, TLC

VARIABLES pc, args, figs, files, ret

vars == <<pc, args, figs, files, ret>>

(***************************************************************************)
(* Bounds of the model.                                                    *)
(***************************************************************************)
MaxCols == 4
MaxRows == 3
MaxArtists == 2

(***************************************************************************)
(* Generic helpers on sequences.                                           *)
(***************************************************************************)
Range(s) == {s[k] : k \in 1..Len(s)}

Min2(a, b) == IF a < b THEN a ELSE b

Max2(a, b) == IF a > b THEN a ELSE b

Reverse(s) == [k \in 1..Len(s) |-> s[Len(s) + 1 - k]]

Repeat(v, n) == [k \in 1..n |-> v]

SeqsUpTo(S, n) == UNION {[1..m -> S] : m \in 0..n}

(***************************************************************************)
(* Python floats (IEEE 754 binary64) for the ratios of splitAxes.  A       *)
(* natural number is the sequence of its digits in base 2^LimbBits, least  *)
(* significant first; a double is [neg, m, e] of value                     *)
(* (-1)^neg * m * 2^e, the mantissa m having exactly DoubleBits binary     *)
(* digits (m = <<>>, e = 0 for zero).  Every operation rounds its exact    *)
(* result to the nearest double, ties to the even mantissa.  Exponents     *)
(* stay far from the range where doubles overflow or become subnormal.     *)
(***************************************************************************)
DoubleBits == 53

LimbBits == 13

\* Digits (limbs) a division is carried beyond those of the dividend.
DivisionLimbs == 6

RECURSIVE Pow2(_)
Pow2(k) == IF k = 0 THEN 1 ELSE 2 * Pow2(k - 1)

Base == Pow2(LimbBits)

RECURSIVE NatOfInt(_)
NatOfInt(n) == IF n = 0 THEN <<>> ELSE <<n % Base>> \o NatOfInt(n \div Base)

\* Without the zero digits at the most significant end.
RECURSIVE Trim(_)
Trim(b) ==
    IF b = <<>> THEN <<>>
    ELSE IF b[Len(b)] = 0 THEN Trim(SubSeq(b, 1, Len(b) - 1))
    ELSE b

\* a + b + c, c being the carry (0 or 1).
RECURSIVE NatAdd(_, _, _)
NatAdd(a, b, c) ==
    IF a = <<>> /\ b = <<>> THEN (IF c = 1 THEN <<1>> ELSE <<>>)
    ELSE LET x == IF a = <<>> THEN 0 ELSE a[1]
             y == IF b = <<>> THEN 0 ELSE b[1]
         IN  <<(x + y + c) % Base>>
                 \o NatAdd(IF a = <<>> THEN a ELSE Tail(a),
                           IF b = <<>> THEN b ELSE Tail(b),
                           (x + y + c) \div Base)

\* a - b - c for a >= b + c, c being the borrow (0 or 1).
RECURSIVE NatSub(_, _, _)
NatSub(a, b, c) ==
    IF a = <<>> THEN <<>>
    ELSE LET y == (IF b = <<>> THEN 0 ELSE b[1]) + c
         IN  <<(a[1] + Base - y) % Base>>
                 \o NatSub(Tail(a), IF b = <<>> THEN b ELSE Tail(b),
                           IF a[1] < y THEN 1 ELSE 0)

\* a < b, for a and b without zero digits at the most significant end.
RECURSIVE NatLess(_, _)
NatLess(a, b) ==
    IF Len(a) # Len(b) THEN Len(a) < Len(b)
    ELSE IF a = <<>> THEN FALSE
    ELSE IF a[Len(a)] # b[Len(b)] THEN a[Len(a)] < b[Len(b)]
    ELSE NatLess(Trim(SubSeq(a, 1, Len(a) - 1)),
                 Trim(SubSeq(b, 1, Len(b) - 1)))

\* a * f + c for small integers f and c.
RECURSIVE NatMul(_, _, _)
NatMul(a, f, c) ==
    IF a = <<>> THEN NatOfInt(c)
    ELSE <<(a[1] * f + c) % Base>>
             \o NatMul(Tail(a), f, (a[1] * f + c) \div Base)

\* Long division of the digits k, k-1, ..., 1 of b by the small integer
\* n > 0, rem being the remainder and q the quotient of the digits above k.
RECURSIVE NatDivFrom(_, _, _, _, _)
NatDivFrom(b, k, n, rem, q) ==
    IF k = 0 THEN [q |-> Trim(q), r |-> rem]
    ELSE NatDivFrom(b, k - 1, n, (rem * Base + b[k]) % n,
                    <<(rem * Base + b[k]) \div n>> \o q)

NatDiv(b, n) == NatDivFrom(b, Len(b), n, 0, <<>>)

\* a * 2^k
ShiftLeft(a, k) ==
    IF a = <<>> THEN <<>>
    ELSE Repeat(0, k \div LimbBits) \o Trim(NatMul(a, Pow2(k % LimbBits), 0))

\* floor(a / 2^k), and whether the division leaves a remainder.
ShiftRight(a, k) ==
    LET drop == Min2(k \div LimbBits, Len(a))
        dv   == NatDiv(SubSeq(a, drop + 1, Len(a)), Pow2(k % LimbBits))
    IN  [q |-> dv.q,
         rest |-> dv.r # 0 \/ \E i \in 1..drop : a[i] # 0]

\* The number of binary digits of an integer v >= 0, of a natural number.
RECURSIVE IntBits(_)
IntBits(v) == IF v = 0 THEN 0 ELSE 1 + IntBits(v \div 2)

NatBits(a) ==
    IF a = <<>> THEN 0 ELSE (Len(a) - 1) * LimbBits + IntBits(a[Len(a)])

DoubleZero == [neg |-> FALSE, m |-> <<>>, e |-> 0]

\* The double of value (-1)^neg * m * 2^e, for m of at most DoubleBits
\* binary digits or a power of two.
Normal(neg, m, e) ==
    LET t == Trim(m)
        b == NatBits(t)
    IN  IF t = <<>> THEN DoubleZero
        ELSE IF b <= DoubleBits
        THEN [neg |-> neg, m |-> ShiftLeft(t, DoubleBits - b),
              e |-> e - (DoubleBits - b)]
        ELSE [neg |-> neg, m |-> ShiftRight(t, b - DoubleBits).q,
              e |-> e + (b - DoubleBits)]

\* The double nearest to (-1)^neg * (m + f) * 2^e, ties to even, where the
\* fraction f is 0 or, when sticky, strictly between 0 and 1.
RoundDouble(neg, m, e, sticky) ==
    LET t == Trim(m)
        d == NatBits(t) - DoubleBits
    IN  IF d <= 0 THEN Normal(neg, t, e)
        ELSE LET g    == ShiftRight(t, d - 1)
                 kept == ShiftRight(g.q, 1).q
                 up   == g.q[1] % 2 = 1
                           /\ (sticky \/ g.rest \/ kept[1] % 2 = 1)
             IN  Normal(neg,
                        IF up THEN NatAdd(kept, <<1>>, 0) ELSE kept,
                        e + d)

\* float(n) for an integer n.
DoubleOfInt(n) ==
    RoundDouble(n < 0, NatOfInt(IF n < 0 THEN -n ELSE n), 0, FALSE)

\* p + q
DoubleAdd(p, q) ==
    LET e0 == Min2(p.e, q.e)
        P  == ShiftLeft(p.m, p.e - e0)
        Q  == ShiftLeft(q.m, q.e - e0)
    IN  IF p.m = <<>> THEN q
        ELSE IF q.m = <<>> THEN p
        ELSE IF p.neg = q.neg
        THEN RoundDouble(p.neg, NatAdd(P, Q, 0), e0, FALSE)
        ELSE IF NatLess(P, Q)
        THEN RoundDouble(q.neg, NatSub(Q, P, 0), e0, FALSE)
        ELSE RoundDouble(p.neg, NatSub(P, Q, 0), e0, FALSE)

\* p - q
DoubleSub(p, q) ==
    DoubleAdd(p, IF q.m = <<>> THEN q ELSE [q EXCEPT !.neg = ~ q.neg])

\* p / n for a small integer n > 0.
DoubleDivInt(p, n) ==
    LET dv == NatDiv(Repeat(0, DivisionLimbs) \o p.m, n)
    IN  IF p.m = <<>> THEN DoubleZero
        ELSE RoundDouble(p.neg, dv.q, p.e - DivisionLimbs * LimbBits,
                         dv.r # 0)

\* The float literal of value n / d, e.g. Double(3, 10) for 0.3.
Double(n, d) == DoubleDivInt(DoubleOfInt(n), d)

\* sum(s): the elements are added from left to right to the start value 0.
RECURSIVE DoubleSumFrom(_, _)
DoubleSumFrom(acc, s) ==
    IF s = <<>> THEN acc ELSE DoubleSumFrom(DoubleAdd(acc, s[1]), Tail(s))

DoubleSum(s) == DoubleSumFrom(DoubleZero, s)

(***************************************************************************)
(* The plotting library's objects.  A figure is a record holding its axes  *)
(* in creation order (row-major for a grid of subplots); an axes holds the *)
(* artists added to it, in order, and its view settings.                   *)
(***************************************************************************)
AllSpines == [bottom |-> TRUE, top |-> TRUE, left |-> TRUE, right |-> TRUE]

DefaultTicks == [bottom |-> TRUE, labelbottom |-> TRUE, top |-> FALSE,
                 left |-> TRUE, labelleft |-> TRUE, right |-> FALSE,
                 xpos |-> "bottom", ypos |-> "left"]

\* A fresh axes, as PyPlot.subplots creates it: nothing drawn, linear scales,
\* automatic limits (<<>>), no labels, all four spines visible, no legend.
NewAxes ==
    [artists |-> <<>>, xlim |-> <<>>, ylim |-> <<>>,
     xscale |-> "linear", yscale |-> "linear",
     xlabel |-> "", ylabel |-> "", title |-> "",
     spines |-> AllSpines, ticks |-> DefaultTicks, legend |-> <<>>]

\* PyPlot.subplots(nrows, ncols, gridspec_kw, sharex, sharey): nrows * ncols
\* fresh axes in row-major order.
Subplots(nrows, ncols, wr, hr, sx, sy) ==
    [axes |-> [k \in 1..(nrows * ncols) |-> NewAxes],
     nrows |-> nrows, ncols |-> ncols,
     width_ratios |-> wr, height_ratios |-> hr,
     sharex |-> sx, sharey |-> sy,
     hspace |-> "default", wspace |-> "default",
     supxlabel |-> "", supylabel |-> "", suptitle |-> ""]

\* PyPlot.subplots() with no argument: a figure with a single axes.
Subplots1 == Subplots(1, 1, <<>>, <<>>, FALSE, FALSE)

\* A figure with no axes at all (e.g. matplotlib.figure.Figure()).
EmptyFigure == [Subplots1 EXCEPT !.axes = <<>>]

\* A savefig that writes nothing.
SaveFig_Nothing(fs, filename, fmt, figure) == fs

\* figure.savefig(filename): the file then holds the figure as it is now.
SaveFig(fs, filename, fmt, figure) ==
    {f \in fs : f.name # filename}
        \cup {[name |-> filename, format |-> fmt, content |-> figure]}

NoCall == [fn |-> "none"]

NoRet == [status |-> "none"]

Returned(ref) == [status |-> "returned", fig |-> ref]

Raised(exc) == [status |-> "raised", exc |-> exc]

(***************************************************************************)
(* SplitPlotUtils.py                                                       *)
(***************************************************************************)

\* The classes of the artists the model distinguishes, and isinstance.
ArtistKinds ==
    {"PathCollection", "PolyCollection", "XAxis", "YAxis", "Line2D",
     "Rectangle", "Spine", "Text", "Legend"}

IsInstance(kind, cls) ==
    CASE cls = "PathCollection" -> kind = "PathCollection"
      [] cls = "Axis"           -> kind \in {"XAxis", "YAxis"}
      [] cls = "Line2D"         -> kind = "Line2D"
      [] cls = "Rectangle"      -> kind = "Rectangle"
      [] cls = "Patch"          -> kind \in {"Rectangle", "Spine"}
      [] cls = "Spine"          -> kind = "Spine"
      [] cls = "Text"           -> kind = "Text"
      [] OTHER                  -> FALSE

\* An artist: its class, its content (data), the position of the source
\* artist it was cloned from (src, 0 for an original) and, for a break
\* marker, the axes-relative corner it is plotted at.
Artist(kind, data) == [kind |-> kind, data |-> data, src |-> 0, marker |-> <<>>]

\* The clone cloneArtist builds: same class and content as the artist.
CloneOf(artist, k) == [artist EXCEPT !.src = k]

NoArtist == Artist("none", 0)

\* cloneArtist(artist, axes), axes being TRUE for an Axes and FALSE for None.
\* k is the position of the artist among the children it is taken from.
\* The outcome: the exception raised ("" for none), the new artist, and
\* whether the call itself has already added it to the axes (axes.scatter).
cloneArtist(artist, k, axes) ==
    IF IsInstance(artist.kind, "PathCollection") THEN
        IF axes
        THEN [exc |-> "", artist |-> CloneOf(artist, k), added |-> TRUE]
        ELSE [exc |-> "AttributeError", artist |-> NoArtist, added |-> FALSE]
    ELSE IF IsInstance(artist.kind, "Axis") THEN
        IF axes
        THEN [exc |-> "", artist |-> CloneOf(artist, k), added |-> FALSE]
        ELSE [exc |-> "AttributeError", artist |-> NoArtist, added |-> FALSE]
    ELSE IF IsInstance(artist.kind, "Line2D") THEN
        [exc |-> "", artist |-> CloneOf(artist, k), added |-> FALSE]
    ELSE IF IsInstance(artist.kind, "Rectangle") THEN
        [exc |-> "", artist |-> CloneOf(artist, k), added |-> FALSE]
    ELSE IF IsInstance(artist.kind, "Spine") THEN
        IF axes
        THEN [exc |-> "", artist |-> CloneOf(artist, k), added |-> FALSE]
        ELSE [exc |-> "AttributeError", artist |-> NoArtist, added |-> FALSE]
    ELSE IF IsInstance(artist.kind, "Text") THEN
        [exc |-> "", artist |-> CloneOf(artist, k), added |-> FALSE]
    ELSE
        [exc |-> "TypeError", artist |-> NoArtist, added |-> FALSE]

\* axes.get_children(): the artists added to the axes, then the four spines,
\* the two axis objects, the three title texts and the background patch.
get_children(ax) ==
    ax.artists
        \o <<Artist("Spine", -1), Artist("Spine", -2),
             Artist("Spine", -3), Artist("Spine", -4),
             Artist("XAxis", -5), Artist("YAxis", -6),
             Artist("Text", -7), Artist("Text", -8), Artist("Text", -9),
             Artist("Rectangle", -10)>>

\* A filter that lets rectangles and text through to cloneArtist.
IsCloned_NoPatchText(artist) ==
    ~ \E X \in {"Axis", "Spine"} : IsInstance(artist.kind, X)

\* The filter of splitAxes: which children are handed to cloneArtist.
IsCloned(artist) ==
    ~ \E X \in {"Axis", "Patch", "Spine", "Text"} : IsInstance(artist.kind, X)

\* The inner loop "for artist in artists": clone the children from position
\* k on into the axes ax; stops at the first exception.
RECURSIVE CloneChildren(_, _, _)
CloneChildren(ax, artists, k) ==
    IF k > Len(artists) THEN [exc |-> "", ax |-> ax]
    ELSE IF ~ IsCloned(artists[k]) THEN CloneChildren(ax, artists, k + 1)
    ELSE LET r == cloneArtist(artists[k], k, TRUE)
             viaScatter == IF r.added THEN <<r.artist>> ELSE <<>>
         IN  IF r.exc # "" THEN [exc |-> r.exc, ax |-> ax]
             ELSE CloneChildren(
                     [ax EXCEPT !.artists = @ \o viaScatter \o <<r.artist>>],
                     artists, k + 1)

\* set_xlim / set_ylim / set_xscale / set_yscale on the axes at position k
\* (1-based) of a figure: axes sharing that axis follow.
SetXlim(fig, k, v) ==
    [fig EXCEPT !.axes = [m \in DOMAIN fig.axes |->
        IF m = k \/ fig.sharex THEN [fig.axes[m] EXCEPT !.xlim = v]
        ELSE fig.axes[m]]]

SetYlim(fig, k, v) ==
    [fig EXCEPT !.axes = [m \in DOMAIN fig.axes |->
        IF m = k \/ fig.sharey THEN [fig.axes[m] EXCEPT !.ylim = v]
        ELSE fig.axes[m]]]

SetXscale(fig, k, v) ==
    [fig EXCEPT !.axes = [m \in DOMAIN fig.axes |->
        IF m = k \/ fig.sharex THEN [fig.axes[m] EXCEPT !.xscale = v]
        ELSE fig.axes[m]]]

SetYscale(fig, k, v) ==
    [fig EXCEPT !.axes = [m \in DOMAIN fig.axes |->
        IF m = k \/ fig.sharey THEN [fig.axes[m] EXCEPT !.yscale = v]
        ELSE fig.axes[m]]]

\* The subscript of newFigure.axes used for grid cell (column i, row j),
\* 0-based as in the source.
subplotIndex(i, j, rowCount, columnCount) == i + j * rowCount

\* The body of the first double loop for the cell (column i, row j) once its
\* subplot newAxes = newFigure.axes[k] (1-based k) is found: cl is the outcome
\* of cloning the artists onto it; then the limits, the scales, the ticks and
\* the spines are set.  c holds the locals of splitAxes.
ConfigureAxes(fig, c, i, j, k, cl) ==
        LET f1 == [fig EXCEPT !.axes[k] = cl.ax]
            f2 == SetXlim(f1, k,
                          IF Len(c.xSubranges) > 0 /\ i < Len(c.xSubranges)
                          THEN c.xSubranges[i + 1] ELSE c.axes.xlim)
            f3 == SetYlim(f2, k,
                          IF Len(c.ySubranges) > 0 /\ j < Len(c.ySubranges)
                          THEN c.ySubranges[j + 1] ELSE c.axes.ylim)
            f4 == SetYscale(SetXscale(f3, k, c.axes.xscale), k, c.axes.yscale)
            last == (j = c.rowCount - 1)
        IN  IF cl.exc # "" THEN [exc |-> cl.exc, fig |-> f1]
            ELSE [exc |-> "",
                  fig |-> [f4 EXCEPT
                    !.axes[k].ticks =
                        [bottom |-> last, labelbottom |-> last, top |-> FALSE,
                         left |-> (i = 0), labelleft |-> (i = 0),
                         right |-> FALSE,
                         xpos |-> IF last THEN "bottom" ELSE "none",
                         ypos |-> IF i = 0 THEN "left" ELSE "none"],
                    !.axes[k].spines =
                        [bottom |-> last, top |-> (j = 0),
                         left |-> (i = 0),
                         right |-> (i = c.columnCount - 1)]]]

\* The body of the first double loop for the cell (column i, row j).
ConfigureCell(fig, c, i, j) ==
    LET idx == subplotIndex(i, j, c.rowCount, c.columnCount)
    IN  IF idx >= Len(fig.axes) THEN [exc |-> "IndexError", fig |-> fig]
        ELSE ConfigureAxes(fig, c, i, j, idx + 1,
                           CloneChildren(fig.axes[idx + 1], c.artists, 1))

\* The first double loop, "for i in range(columnCount): for j in
\* range(rowCount)", from its n-th iteration (0-based) on.
RECURSIVE ConfigureCells(_, _, _)
ConfigureCells(fig, c, n) ==
    IF n >= c.columnCount * c.rowCount THEN [exc |-> "", fig |-> fig]
    ELSE LET r == ConfigureCell(fig, c, n \div c.rowCount, n % c.rowCount)
         IN  IF r.exc # "" THEN r ELSE ConfigureCells(r.fig, c, n + 1)

\* newAxes.plot([x], [y], transform = newAxes.transAxes, **parameters): one
\* slanted marker at the corner (x, y) of the axes.
BreakMarker(x, y) == [Artist("Line2D", 0) EXCEPT !.marker = <<x, y>>]

Xor(a, b) == a # b

\* The corners of cell (column i, row j) that get a slanted marker, in the
\* order the four if statements plot them.
markerCorners(i, j, rowCount, columnCount) ==
    (IF Xor(i > 0, j < rowCount - 1) THEN <<BreakMarker(0, 0)>> ELSE <<>>)
    \o (IF Xor(i < columnCount - 1, j < rowCount - 1)
        THEN <<BreakMarker(1, 0)>> ELSE <<>>)
    \o (IF Xor(i = 0, j = 0) THEN <<BreakMarker(0, 1)>> ELSE <<>>)
    \o (IF Xor(i < columnCount - 1, j > 0)
        THEN <<BreakMarker(1, 1)>> ELSE <<>>)

\* The second double loop, from its n-th iteration on.
RECURSIVE AddMarkers(_, _, _)
AddMarkers(fig, c, n) ==
    IF n >= c.columnCount * c.rowCount THEN [exc |-> "", fig |-> fig]
    ELSE LET i   == n \div c.rowCount
             j   == n % c.rowCount
             idx == subplotIndex(i, j, c.rowCount, c.columnCount)
         IN  IF idx >= Len(fig.axes) THEN [exc |-> "IndexError", fig |-> fig]
             ELSE AddMarkers(
                     [fig EXCEPT !.axes[idx + 1].artists =
                         @ \o markerCorners(i, j, c.rowCount, c.columnCount)],
                     c, n + 1)

\* The completion of a ratio list that is shorter than the number of cells.
completeRatio(ratio, count) ==
    IF Len(ratio) < count
    THEN ratio \o Repeat(DoubleDivInt(DoubleSub(DoubleOfInt(1),
                                                DoubleSum(ratio)),
                                      count - Len(ratio)),
                         count - Len(ratio))
    ELSE ratio

\* The end of splitAxes, r2 being the outcome of the second double loop: the
\* labels and the title are copied and the figure is saved and returned.
splitAxesReturn(a, fs, c, r2) ==
    LET titled == [r2.fig EXCEPT
                     !.supxlabel = c.axes.xlabel,
                     !.supylabel = c.axes.ylabel,
                     !.suptitle = IF c.axes.title # "" THEN c.axes.title
                                  ELSE @]
    IN  IF r2.exc # "" THEN
            [figs |-> <<a.figure, r2.fig>>, files |-> fs,
             ret |-> Raised(r2.exc)]
        ELSE
            [figs |-> <<a.figure, titled>>,
             files |-> IF Len(a.filename) > 0
                       THEN SaveFig(fs, a.filename, a.fileFormat, titled)
                       ELSE fs,
             ret |-> Returned(2)]

\* splitAxes after its first double loop, whose outcome is r1.
splitAxesMarkers(a, fs, c, r1) ==
    IF r1.exc # "" THEN
        [figs |-> <<a.figure, r1.fig>>, files |-> fs, ret |-> Raised(r1.exc)]
    ELSE splitAxesReturn(a, fs, c, AddMarkers(r1.fig, c, 0))

\* splitAxes(figure, filename, fileFormat, xSubranges, ySubranges, xRatio,
\* yRatio, xSpacing, ySpacing) called with the arguments a, in a world whose
\* only figure is a.figure.  The outcome: the figures and files afterwards
\* and what the call returns or raises.
splitAxes(a, fs) ==
    LET figure      == a.figure
        columnCount == Max2(Len(a.xSubranges), 1)
        rowCount    == Max2(Len(a.ySubranges), 1)
        xRatio      == completeRatio(a.xRatio, columnCount)
        yRatio      == Reverse(completeRatio(a.yRatio, rowCount))
        ySubranges  == Reverse(a.ySubranges)
        grid        == Subplots(rowCount, columnCount, xRatio, yRatio,
                                columnCount < 2, rowCount < 2)
        newFigure   == [grid EXCEPT
                          !.hspace = IF columnCount # 0 THEN a.ySpacing
                                     ELSE "default",
                          !.wspace = IF rowCount # 0 THEN a.xSpacing
                                     ELSE "default"]
        axes        == figure.axes[1]
        c           == [columnCount |-> columnCount, rowCount |-> rowCount,
                        xSubranges |-> a.xSubranges, ySubranges |-> ySubranges,
                        axes |-> axes, artists |-> get_children(axes)]
    IN  IF Len(figure.axes) = 0 THEN
            [figs |-> <<figure>>, files |-> fs, ret |-> Returned(1)]
        ELSE IF Len(xRatio) # columnCount \/ Len(yRatio) # rowCount THEN
            \* PyPlot.subplots rejects a ratio list of the wrong length; the
            \* figure it had created stays without axes.
            [figs |-> <<figure, EmptyFigure>>, files |-> fs,
             ret |-> Raised("ValueError")]
        ELSE splitAxesMarkers(a, fs, c, ConfigureCells(newFigure, c, 0))

\* The figures splitAxes is called on: one axes holding the given artists,
\* with limits, labels and a title set, or no axes at all.
SourceFigure(kinds) ==
    [Subplots1 EXCEPT
        !.axes = <<[NewAxes EXCEPT
                      !.artists = [k \in 1..Len(kinds) |-> Artist(kinds[k], k)],
                      !.xlim = <<0, 100>>, !.ylim = <<0, 50>>,
                      !.xlabel = "time", !.ylabel = "value",
                      !.title = "source"]>>]

UserKinds == {"Line2D", "PathCollection", "PolyCollection", "Rectangle", "Text"}

SourceFigures ==
    {EmptyFigure} \cup {SourceFigure(ks) : ks \in SeqsUpTo(UserKinds, MaxArtists)}

\* Subrange lists of every length up to the bound, all entries distinct.
XSubrangesOf(n) == [k \in 1..n |-> <<10 * k, 10 * k + 5>>]

YSubrangesOf(n) == [k \in 1..n |-> <<100 * k, 100 * k + 50>>]

\* No ratios (the default), 0.3 alone, and 0.25 twice.
RatioLists == {<<>>, <<Double(3, 10)>>, <<Double(1, 4), Double(1, 4)>>}

Filenames == {"", "plot.png"}

SplitArgs ==
    [fn : {"splitAxes"}, figure : SourceFigures, filename : Filenames,
     fileFormat : {"png"},
     xSubranges : {XSubrangesOf(n) : n \in 0..MaxCols},
     ySubranges : {YSubrangesOf(n) : n \in 0..MaxRows},
     xRatio : RatioLists, yRatio : RatioLists,
     xSpacing : {"0.05"}, ySpacing : {"0.05"}]

\* The world before a call: no figure, no file, the arguments chosen.
InitWith(argSet) ==
    /\ pc = "ready"
    /\ args \in argSet
    /\ figs = <<>>
    /\ files = {}
    /\ ret = NoRet

\* The call args describes runs to its end, with outcome r.
Finish(r) ==
    /\ figs' = r.figs
    /\ files' = r.files
    /\ ret' = r.ret
    /\ pc' = "done"
    /\ UNCHANGED args

\* One call of splitAxes.
SplitAxes ==
    /\ pc = "ready"
    /\ args.fn = "splitAxes"
    /\ Finish(splitAxes(args, files))

InitSplit == InitWith(SplitArgs)

NextSplit == SplitAxes

SpecSplit == InitSplit /\ [][NextSplit]_vars

(***************************************************************************)
(* Properties of splitAxes (checked under SpecSplit).                      *)
(***************************************************************************)

\* The call of splitAxes has returned the new figure (figs[2]).
SplitReturned ==
    /\ pc = "done"
    /\ args.fn = "splitAxes"
    /\ ret.status = "returned"
    /\ ret.fig = 2

\* The subplot at grid column i and grid row j (0-based, row 0 at the top) of
\* a figure made by PyPlot.subplots: the axes are stored row by row.
SubplotAt(fig, i, j) == fig.axes[j * fig.ncols + i + 1]

\* C1 (as claimed): the figure returned by splitAxes has max(R,1) x max(C,1)
\* subplots, and the subplot at grid column i and grid row j ends with
\* x-limits xSubranges[i] and y-limits ySubranges[R-1-j]; with no horizontal
\* (vertical) subrange every subplot ends with the source's x-(y-)limits.
C1_GridLimits ==
    SplitReturned =>
        LET C   == Len(args.xSubranges)
            R   == Len(args.ySubranges)
            src == args.figure.axes[1]
            fig == figs[2]
        IN  /\ Len(fig.axes) = Max2(R, 1) * Max2(C, 1)
            /\ fig.nrows = Max2(R, 1)
            /\ fig.ncols = Max2(C, 1)
            /\ \A i \in 0..(Max2(C, 1) - 1), j \in 0..(Max2(R, 1) - 1) :
                /\ SubplotAt(fig, i, j).xlim =
                     IF C = 0 THEN src.xlim ELSE args.xSubranges[i + 1]
                /\ SubplotAt(fig, i, j).ylim =
                     IF R = 0 THEN src.ylim ELSE args.ySubranges[R - j]

Corners == {<<0, 0>>, <<1, 0>>, <<0, 1>>, <<1, 1>>}

HasMarker(ax, corner) ==
    \E k \in 1..Len(ax.artists) : ax.artists[k].marker = corner

\* Exactly one of the two spines that meet at the corner is visible.
OneSpineAt(ax, corner) ==
    (IF corner[1] = 0 THEN ax.spines.left ELSE ax.spines.right)
        # (IF corner[2] = 0 THEN ax.spines.bottom ELSE ax.spines.top)

\* C2 (as claimed): in the figure returned by splitAxes every subplot has a
\* break marker at a corner if and only if exactly one of the two spines
\* meeting at that corner is visible on that subplot; a 1x1 grid has none.
C2_MarkersMatchSpines ==
    SplitReturned =>
        \A k \in 1..Len(figs[2].axes), corner \in Corners :
            HasMarker(figs[2].axes[k], corner)
                <=> OneSpineAt(figs[2].axes[k], corner)

\* The subplot holds a clone of the child at position n of the source axes.
HasCloneOf(ax, children, n) ==
    \E k \in 1..Len(ax.artists) :
        /\ ax.artists[k].src = n
        /\ ax.artists[k].kind = children[n].kind
        /\ ax.artists[k].data = children[n].data

Inf == 1000
NegInf == -1000
NaN == 2000
None == -2000

MaxPoints == 2

\* filterFinite(values): one boolean per value, False for +-infinity.
filterFinite(values) ==
    [k \in 1..Len(values) |-> values[k] # Inf /\ values[k] # -Inf]

\* The callables passed as transform: none ("None") or numpy.log10.
ApplyTransform(transform, v) ==
    IF transform = "None" THEN v
    ELSE CASE v = 0      -> NegInf
           [] v = 1      -> 0
           [] v = 10     -> 1
           [] v = Inf    -> Inf
           [] OTHER      -> NaN

\* list(map(transform, x)), applied only when transform != None.
MapTransform(transform, x) ==
    [k \in 1..Len(x) |-> ApplyTransform(transform, x[k])]

\* zip(a, b): the pairs up to the shorter length.
Zip(a, b) == [k \in 1..Min2(Len(a), Len(b)) |-> <<a[k], b[k]>>]

\* [X for X, mask in zip(x, masks) if mask]
RECURSIVE Compress(_, _)
Compress(x, masks) ==
    IF x = <<>> \/ masks = <<>> THEN <<>>
    ELSE (IF masks[1] THEN <<x[1]>> ELSE <<>>)
            \o Compress(Tail(x), Tail(masks))

\* Masks that look at the x values only.
scatterMasks_XOnly(x, y) ==
    LET z == Zip(filterFinite(x), filterFinite(y))
    IN  [k \in 1..Len(z) |-> z[k][1]]

\* masks = [X and Y for X, Y in zip(filterFinite(x), filterFinite(y))]
scatterMasks(x, y) ==
    LET z == Zip(filterFinite(x), filterFinite(y))
    IN  [k \in 1..Len(z) |-> z[k][1] /\ z[k][2]]

\* u < v on floats: False whenever one of them is nan.
PyLess(u, v) == u # NaN /\ v # NaN /\ u < v

\* sorted(x) for a list of fewer than 64 numbers, as list.sort does it with
\* "<" alone: the initial run is found (a strictly descending one is
\* reversed) and each later element is put into it by binary insertion.
\* RunEnd: the last index of the run whose elements k, k+1, ... go on
\* descending (desc) or not descending.
RECURSIVE RunEnd(_, _, _)
RunEnd(x, k, desc) ==
    IF k > Len(x) THEN k - 1
    ELSE IF PyLess(x[k], x[k - 1]) = desc THEN RunEnd(x, k + 1, desc)
    ELSE k - 1

\* The number of elements of the sorted list s that stay before pivot, found
\* by bisection between l and r.
RECURSIVE BinaryPos(_, _, _, _)
BinaryPos(s, pivot, l, r) ==
    IF l >= r THEN l
    ELSE LET p == l + (r - l) \div 2
         IN  IF PyLess(pivot, s[p + 1]) THEN BinaryPos(s, pivot, l, p)
             ELSE BinaryPos(s, pivot, p + 1, r)

RECURSIVE BinarySort(_, _)
BinarySort(done, rest) ==
    IF rest = <<>> THEN done
    ELSE LET pos == BinaryPos(done, rest[1], 0, Len(done))
         IN  BinarySort(SubSeq(done, 1, pos) \o <<rest[1]>>
                            \o SubSeq(done, pos + 1, Len(done)),
                        Tail(rest))

Sorted(x) ==
    IF Len(x) < 2 THEN x
    ELSE LET desc == PyLess(x[2], x[1])
             n    == RunEnd(x, 3, desc)
             run  == SubSeq(x, 1, n)
         IN  BinarySort(IF desc THEN Reverse(run) ELSE run,
                        SubSeq(x, n + 1, Len(x)))

\* The annotations of "for pointX, pointY, label in zip(x, y, labels)".
scatterAnnotations(x, y, labels) ==
    LET z == Zip(Zip(x, y), labels)
    IN  [k \in 1..Len(z) |->
            [kind |-> "Annotation", text |-> z[k][2], xy |-> z[k][1]]]

\* axes.legend(loc = 'right', title = legendTitle): the axes' legend is
\* replaced by a new one listing the labelled artists now on the axes.
MakeLegend(ax, title) ==
    [kind |-> "Legend", title |-> title,
     handles |-> LET labelled == SelectSeq(ax.artists,
                        LAMBDA t : t.kind \in {"PathCollection", "Line2D"}
                                   /\ t.label # "None")
                 IN  [k \in 1..Len(labelled) |-> labelled[k].label]]

\* An append test that never recognises a figure.
isFigure_Never(append, fg) == FALSE

\* type(append) == Figure.Figure: append is one of the figures of the world.
isFigure(append, fg) == append \in 1..Len(fg)

\* scatter(x, y, ...) called with the arguments a in a world with the figures
\* fg and the files fs.  a.append is 0 for None, the position of a figure of
\* fg for a matplotlib Figure, and -1 for any other object.  For the optional
\* lists (labels, colors, xlim, ylim) None is written <<>>; for the optional
\* strings it is written "None".
scatter(a, fg, fs) ==
    LET x0     == IF a.transform # "None" THEN MapTransform(a.transform, a.x)
                  ELSE a.x
        y0     == IF a.transform # "None" THEN MapTransform(a.transform, a.y)
                  ELSE a.y
        masks  == scatterMasks(x0, y0)
        x      == Compress(x0, masks)
        y      == Compress(y0, masks)
        isFig  == isFigure(a.append, fg)
        update == isFig /\ Len(fg[a.append].axes) > 0
        ref    == IF isFig THEN a.append ELSE Len(fg) + 1
        \* the figure and its first axes before anything is drawn
        fig0   == IF ~ isFig THEN Subplots1
                  ELSE IF update THEN fg[a.append]
                  ELSE [fg[a.append] EXCEPT !.axes = <<NewAxes>>]
        ax0    == fig0.axes[1]
        ax1    == IF update THEN ax0
                  ELSE [ax0 EXCEPT
                          !.xscale = IF a.xLogScale THEN "log" ELSE "linear",
                          !.yscale = IF a.yLogScale THEN "log" ELSE "linear"]
        \* axes.scatter raises when c is a list whose length is not len(x)
        badC   == a.colors # <<>> /\ Len(a.colors) # Len(x)
        ax2    == [ax1 EXCEPT !.artists = @ \o
                     <<[kind |-> "PathCollection", xs |-> x, ys |-> y,
                        c |-> a.colors, marker |-> a.marker,
                        label |-> a.dataLabel]>>]
        ax3    == IF a.labels # <<>>
                  THEN [ax2 EXCEPT !.artists =
                          @ \o scatterAnnotations(x, y, a.labels)]
                  ELSE ax2
        \* numpy.polyfit raises on an empty vector
        badFit == a.linearFit /\ x = <<>>
        ax4    == IF a.linearFit
                  THEN [ax3 EXCEPT !.artists = @
                          \o <<[kind |-> "Line2D", xs |-> Sorted(x),
                                ys |-> "fit", label |-> "None"]>>
                          \o (IF a.showFormula
                              THEN <<[kind |-> "Text", text |-> "formula",
                                      xy |-> <<70, 5>>]>>
                              ELSE <<>>)]
                  ELSE ax3
        ax5    == [ax4 EXCEPT
                     !.xlim = IF a.xlim # <<>> THEN a.xlim ELSE @,
                     !.ylim = IF a.ylim # <<>> THEN a.ylim ELSE @,
                     !.xlabel = IF a.xLabel = "None" THEN "" ELSE a.xLabel,
                     !.ylabel = IF a.yLabel = "None" THEN "" ELSE a.yLabel]
        ax6    == IF a.legend
                  THEN [ax5 EXCEPT !.legend = <<MakeLegend(ax5, a.legendTitle)>>]
                  ELSE ax5
        put(ax) == IF isFig THEN [fg EXCEPT ![ref] = [fig0 EXCEPT !.axes[1] = ax]]
                   ELSE Append(fg, [fig0 EXCEPT !.axes[1] = ax])
    IN  IF badC THEN
            [figs |-> put(ax1), files |-> fs, ret |-> Raised("ValueError")]
        ELSE IF badFit THEN
            [figs |-> put(ax3), files |-> fs, ret |-> Raised("TypeError")]
        ELSE
            [figs |-> put(ax6),
             files |-> IF Len(a.filename) > 0
                       THEN SaveFig(fs, a.filename, a.fileFormat,
                                    [fig0 EXCEPT !.axes[1] = ax6])
                       ELSE fs,
             ret |-> Returned(ref)]

PointVals == {0, 1, Inf}

PointLists == SeqsUpTo(PointVals, MaxPoints)

LabelNames == <<"a", "b", "c", "d", "e">>

\* A list of n distinct labels (colours).
LabelsOf(n) == [k \in 1..n |-> LabelNames[k]]

\* The arguments of scatter that the calls below leave at fixed values.
ScatterDefaults ==
    [fn : {"scatter"}, marker : {"o"}, xlim : {<<>>}, ylim : {<<>>},
     xLogScale : {FALSE}, yLogScale : {FALSE},
     xLabel : {"None"}, yLabel : {"None"}, legendTitle : {"None"},
     fileFormat : {"png"}]

\* Record sets are joined field-wise: the records over both sets of fields.
Join(A, B) ==
    {[f \in (DOMAIN p) \cup (DOMAIN q) |->
        IF f \in DOMAIN p THEN p[f] ELSE q[f]] : p \in A, q \in B}

\* Single calls of scatter that create their own figure.
ScatterArgs ==
    Join(ScatterDefaults,
         {r \in [x : PointLists, y : PointLists, filename : Filenames,
                 transform : {"None", "log10"},
                 labels : {<<>>, LabelsOf(MaxPoints)},
                 colors : {<<>>, LabelsOf(MaxPoints)},
                 linearFit : BOOLEAN, showFormula : BOOLEAN,
                 dataLabel : {"None"}, legend : {FALSE}, append : {0}] :
            r.showFormula => r.linearFit})

\* One call of scatter.
Scatter ==
    /\ pc = "ready"
    /\ args.fn = "scatter"
    /\ Finish(scatter(args, figs, files))

InitScatter == InitWith(ScatterArgs)

NextScatter == Scatter

SpecScatter == InitScatter /\ [][NextScatter]_vars

(***************************************************************************)
(* Calls of scatter one after another, appending to figures made earlier.  *)
(***************************************************************************)
MaxCalls == 3

\* The number of scatter series drawn on the figures of the world.
RECURSIVE SeriesCount(_)
SeriesCount(fg) ==
    IF fg = <<>> THEN 0
    ELSE (IF fg[1].axes = <<>> THEN 0
          ELSE Len(SelectSeq(fg[1].axes[1].artists,
                             LAMBDA t : t.kind = "PathCollection")))
         + SeriesCount(Tail(fg))

AppendArgs(fg) ==
    Join(ScatterDefaults,
         [x : {<<1>>}, y : {<<0>>}, filename : {""},
          transform : {"None"}, labels : {<<>>, LabelsOf(1)},
          colors : {<<>>}, linearFit : {FALSE}, showFormula : {FALSE},
          dataLabel : {"None", "series"}, legend : BOOLEAN,
          append : {-1, 0} \cup (1..Len(fg))])

\* The world before the first call: no figure, or one figure without axes
\* made by the caller.
InitAppend ==
    /\ pc = "ready"
    /\ args = NoCall
    /\ figs \in {<<>>, <<EmptyFigure>>}
    /\ files = {}
    /\ ret = NoRet

\* One more call of scatter, possibly on a figure of an earlier call.
ScatterAgain(a) ==
    /\ pc = "ready"
    /\ SeriesCount(figs) < MaxCalls
    /\ LET r == scatter(a, figs, files)
       IN  /\ figs' = r.figs
           /\ files' = r.files
           /\ ret' = r.ret
    /\ args' = a
    /\ pc' = "ready"

NextAppend ==
    SeriesCount(figs) < MaxCalls /\ \E a \in AppendArgs(figs) : ScatterAgain(a)

SpecAppend == InitAppend /\ [][NextAppend]_vars

(***************************************************************************)
(* Properties of scatter.                                                  *)
(***************************************************************************)

\* The points the claim expects: the transformed pairs at the indices where
\* neither transformed coordinate is infinite, in increasing order of index.
RECURSIVE ExpectedPoints(_, _, _, _)
ExpectedPoints(x, y, t, k) ==
    IF k > Len(x) \/ k > Len(y) THEN <<>>
    ELSE LET px == ApplyTransform(t, x[k])
             py == ApplyTransform(t, y[k])
         IN  (IF px \in {Inf, NegInf} \/ py \in {Inf, NegInf} THEN <<>>
              ELSE <<<<px, py>>>>)
                 \o ExpectedPoints(x, y, t, k + 1)

\* The scatter series (PathCollections) on the first axes of figure k.
SeriesOf(k) ==
    SelectSeq(figs[k].axes[1].artists, LAMBDA t : t.kind = "PathCollection")

\* C5: the points drawn by scatter are exactly the pairs (t(x[k]), t(y[k]))
\* at the indices k < min(len(x), len(y)) where neither coordinate is
\* infinite, in increasing order of k; the plotted x and y have equal length
\* and hold no infinite value.
C5_FinitePairsDrawn ==
    (pc = "done" /\ args.fn = "scatter" /\ Len(figs) = 1) =>
        \A n \in 1..Len(SeriesOf(1)) :
            LET pts == SeriesOf(1)[n]
            IN  /\ Len(pts.xs) = Len(pts.ys)
                /\ Zip(pts.xs, pts.ys)
                     = ExpectedPoints(args.x, args.y, args.transform, 1)
                /\ \A k \in 1..Len(pts.xs) :
                     pts.xs[k] \notin {Inf, NegInf}
                        /\ pts.ys[k] \notin {Inf, NegInf}

\* A call where a point is dropped because its transformed y is infinite,
\* and another one is drawn.
C5_Witness ==
    /\ pc = "done" /\ args.fn = "scatter" /\ ret.status = "returned"
    /\ args.transform = "log10"
    /\ Len(SeriesOf(1)) = 1
    /\ Len(SeriesOf(1)[1].xs) = 1
    /\ \E k \in 1..Len(args.y) : k <= Len(args.x) /\ args.y[k] = 0

\* C6 (as claimed): for every index k whose point is drawn, labels[k] is
\* annotated at the (transformed) coordinates of input data point k, also
\* when an earlier point is infinite and excluded.
C6_LabelsFollowPoints ==
    (pc = "done" /\ args.fn = "scatter" /\ ret.status = "returned"
        /\ args.labels # <<>>) =>
        LET masks == scatterMasks(MapTransform(args.transform, args.x),
                                  MapTransform(args.transform, args.y))
            notes == SelectSeq(figs[1].axes[1].artists,
                               LAMBDA t : t.kind = "Annotation")
        IN  \A k \in 1..Len(masks) :
                (masks[k] /\ k <= Len(args.labels)) =>
                    \E n \in 1..Len(notes) :
                        /\ notes[n].text = args.labels[k]
                        /\ notes[n].xy =
                             <<ApplyTransform(args.transform, args.x[k]),
                               ApplyTransform(args.transform, args.y[k])>>

\* The artists on an axes, its legend included.
Drawn(ax) == Range(ax.artists) \cup Range(ax.legend)

\* The call made in this step appended to the figure args'.append.
AppendedToFigure ==
    /\ args'.fn = "scatter"
    /\ ret'.status = "returned"
    /\ args'.append \in 1..Len(figs)

\* The call made in this step was given append = None.
CalledWithoutAppend ==
    /\ args'.fn = "scatter"
    /\ ret'.status = "returned"
    /\ args'.append = 0

\* The new series is the last scatter series of the first axes of the
\* returned figure, and the figure has as many axes as before, or one if it
\* had none.
SeriesOnFirstAxes ==
    LET r == args'.append
    IN  /\ ret'.fig = r
        /\ Len(figs') = Len(figs)
        /\ Len(figs'[r].axes) = Max2(Len(figs[r].axes), 1)
        /\ \E m \in 1..Len(figs'[r].axes[1].artists) :
            /\ figs'[r].axes[1].artists[m].kind = "PathCollection"
            /\ figs'[r].axes[1].artists[m].label = args'.dataLabel
            /\ figs[r].axes # <<>> => m > Len(figs[r].axes[1].artists)
        /\ \A k \in 1..Len(figs) : k # r => figs'[k] = figs[k]

\* A new figure is returned and the earlier figures are as they were.
NewFigureOnly ==
    /\ Len(figs') = Len(figs) + 1
    /\ ret'.fig = Len(figs) + 1
    /\ \A k \in 1..Len(figs) : figs'[k] = figs[k]

\* C7 (as claimed): with append a Figure the same figure is returned, the
\* series is drawn on its first axes (new axes if it had none) and every
\* artist previously on those axes is still present; with append = None a
\* new figure is made and the earlier figures are untouched.
C7_AppendKeepsEveryArtist ==
    [][/\ AppendedToFigure =>
            /\ SeriesOnFirstAxes
            /\ figs[args'.append].axes # <<>> =>
                 Drawn(figs[args'.append].axes[1])
                    \subseteq Drawn(figs'[args'.append].axes[1])
       /\ CalledWithoutAppend => NewFigureOnly]_vars

\* C7 (amended): as claimed, except that the legend is not kept: every
\* artist drawn on the axes before the call is still there, in the same
\* order, and the legend box is the one before the call when legend is False
\* and a newly built one when legend is True.
C7_AppendKeepsDrawnArtists ==
    [][/\ AppendedToFigure =>
            /\ SeriesOnFirstAxes
            /\ figs[args'.append].axes # <<>> =>
                 LET before == figs[args'.append].axes[1]
                     after  == figs'[args'.append].axes[1]
                 IN  /\ Len(after.artists) > Len(before.artists)
                     /\ SubSeq(after.artists, 1, Len(before.artists))
                          = before.artists
                     /\ after.legend =
                          IF args'.legend
                          THEN <<MakeLegend(after, args'.legendTitle)>>
                          ELSE before.legend
       /\ CalledWithoutAppend => NewFigureOnly]_vars

\* A second series has been appended, with a legend, to a figure that had a
\* series and a legend, while another figure exists.
C7_Witness ==
    /\ args.fn = "scatter" /\ ret.status = "returned"
    /\ args.append = ret.fig
    /\ args.legend
    /\ Len(figs) >= 2
    /\ Len(SeriesOf(ret.fig)) >= 2
    /\ Len(figs[ret.fig].axes[1].legend) = 1
    /\ Len(figs[ret.fig].axes[1].legend[1].handles) >= 2

(***************************************************************************)
(* scatterCurve (CorPlotUtils.py)                                          *)
(***************************************************************************)

\* min(...) and max(...) of a list that is not empty: the first element is
\* kept until a later one compares smaller (greater).
RECURSIVE MinFrom(_, _)
MinFrom(cur, s) ==
    IF s = <<>> THEN cur
    ELSE MinFrom(IF PyLess(s[1], cur) THEN s[1] ELSE cur, Tail(s))

MinOf(s) == MinFrom(s[1], Tail(s))

RECURSIVE MaxFrom(_, _)
MaxFrom(cur, s) ==
    IF s = <<>> THEN cur
    ELSE MaxFrom(IF PyLess(cur, s[1]) THEN s[1] ELSE cur, Tail(s))

MaxOf(s) == MaxFrom(s[1], Tail(s))

\* The list min(...) is taken of: the positive x (x0 for x0 in x if x0 > 0)
\* when xLogScale, else x.
\* min and max raise ValueError on an empty list; min is evaluated first.
curveMinArg(a) ==
    IF a.xLogScale THEN SelectSeq(a.x, LAMBDA v : PyLess(0, v)) ELSE a.x

curveRangeOk(a) == curveMinArg(a) # <<>> /\ a.x # <<>>

\* xRange: (min, max) of x, each bound replaced by the bound of xlim that is
\* not None.
curveRange(a) ==
    LET lo == MinOf(curveMinArg(a))
        hi == MaxOf(a.x)
    IN  IF a.xlim # <<>>
        THEN <<IF a.xlim[1] # None THEN a.xlim[1] ELSE lo,
               IF a.xlim[2] # None THEN a.xlim[2] ELSE hi>>
        ELSE <<lo, hi>>

\* xDense: len(x) * samplingDensity points from xRange[0] to xRange[1],
\* spaced evenly (numpy.linspace) or, when xLogScale, evenly in the
\* logarithm (numpy.logspace).
curveSample(a) ==
    [space |-> IF a.xLogScale THEN "logspace" ELSE "linspace",
     from |-> curveRange(a)[1], to |-> curveRange(a)[2],
     num |-> Len(a.x) * a.samplingDensity]

\* scatterCurve after "figure = scatter(x, y, **kwargs)", whose outcome is
\* base: the curve is drawn on the first axes over the sample xDense (ys
\* "curve" stands for [curve(X) for X in xDense]).
scatterCurvePlot(a, base) ==
    LET ref     == base.ret.fig
        curve   == [kind |-> "Line2D", xs |-> curveSample(a),
                    ys |-> "curve", label |-> a.curveLabel]
        ax1     == [base.figs[ref].axes[1] EXCEPT !.artists = @ \o <<curve>>]
        ax2     == IF a.legend
                   THEN [ax1 EXCEPT !.legend = <<MakeLegend(ax1, a.legendTitle)>>]
                   ELSE ax1
        figure  == [base.figs[ref] EXCEPT !.axes[1] = ax2]
    IN  IF base.ret.status = "raised" THEN base
        ELSE IF ~ curveRangeOk(a) THEN
            [figs |-> base.figs, files |-> base.files,
             ret |-> Raised("ValueError")]
        ELSE
            [figs |-> [base.figs EXCEPT ![ref] = figure],
             files |-> IF Len(a.filename) > 0
                       THEN SaveFig(base.files, a.filename, a.fileFormat, figure)
                       ELSE base.files,
             ret |-> Returned(ref)]

\* scatterCurve(x, y, curve, filename, ..., **kwargs): the keyword arguments
\* go to scatter, which is called without a filename.
scatterCurve(a, fg, fs) ==
    scatterCurvePlot(a, scatter([a EXCEPT !.filename = ""], fg, fs))

\* Calls of scatterCurve: x with zero, one and infinity, with and without a
\* logarithmic x axis and limits of which one may be None.
ScatterCurveArgs ==
    [fn : {"scatterCurve"}, marker : {"o"},
     xlim : {<<>>, <<None, 5>>}, ylim : {<<>>},
     xLogScale : BOOLEAN, yLogScale : {FALSE},
     xLabel : {"None"}, yLabel : {"None"}, legendTitle : {"None"},
     fileFormat : {"png"},
     x : PointLists, y : {<<1>>, <<1, 0>>}, filename : Filenames,
     transform : {"None"}, labels : {<<>>}, colors : {<<>>},
     linearFit : {FALSE}, showFormula : {FALSE},
     dataLabel : {"None"}, legend : BOOLEAN, append : {0},
     curveLabel : {"None", "model"}, samplingDensity : {3}]

\* One call of scatterCurve.
ScatterCurve ==
    /\ pc = "ready"
    /\ args.fn = "scatterCurve"
    /\ Finish(scatterCurve(args, figs, files))

(***************************************************************************)
(* ContourPlotUtils.py                                                     *)
(***************************************************************************)
MaxGrid == 2

\* A dimension check that compares the inner length before the outer one.
contourCheck_InnerFirst(X, Y, Z) ==
    IF Len(X) = 0 THEN "invalid"
    ELSE IF Len(Y) = 0 THEN "invalid"
    ELSE IF Len(Z) = 0 THEN "IndexError"
    ELSE IF Len(Y) # Len(Z[1]) THEN "invalid"
    ELSE IF Len(X) # Len(Z) THEN "invalid"
    ELSE "valid"

\* The outcome of the dimension check of contour2D, "IndexError" standing
\* for a Z[0] evaluated on an empty Z.  Python's "or" stops at the first
\* operand that is true.
contourCheck(X, Y, Z) ==
    IF Len(X) = 0 THEN "invalid"
    ELSE IF Len(Y) = 0 THEN "invalid"
    ELSE IF Len(X) # Len(Z) THEN "invalid"
    ELSE IF Len(Z) = 0 THEN "IndexError"
    ELSE IF Len(Y) # Len(Z[1]) THEN "invalid"
    ELSE "valid"

\* [[z[i] for z in Z] for i in range(0, len(Z[0]))] can be built: no inner
\* list is shorter than the first one.
contourGridOk(Z) == \A a \in 1..Len(Z) : Len(Z[a]) >= Len(Z[1])

\* The lists of Z handed over as they are, not transposed.
contourGrid_AsGiven(Z) == Z

\* [[z[i] for z in Z] for i in range(0, len(Z[0]))]
contourGrid(Z) ==
    [i \in 1..Len(Z[1]) |-> [a \in 1..Len(Z) |-> Z[a][i]]]

\* contour2D(X, Y, Z, ...) called with the arguments a.
contour2D(a, fg, fs) ==
    LET ref     == Len(fg) + 1
        check   == contourCheck(a.X, a.Y, a.Z)
        grid    == contourGrid(a.Z)
        locator == IF a.fillLogScale
                   THEN <<"LogLocator", a.fillLogScaleBase, a.fillTickCount>>
                   ELSE <<"LinearLocator", 0, a.fillTickCount>>
        contour == [kind |-> "QuadContourSet", X |-> a.X, Y |-> a.Y,
                    grid |-> grid, locator |-> locator, cmap |-> "turbo",
                    clim |-> a.fillRange]
        colorbar == [NewAxes EXCEPT
                       !.artists = <<[kind |-> "Colorbar"]>>,
                       !.ylabel = IF Len(a.fillLabel) > 0 THEN a.fillLabel
                                  ELSE @]
        axes    == [NewAxes EXCEPT
                      !.artists = <<contour>>,
                      !.xscale = IF a.xLogScale THEN "log" ELSE "linear",
                      !.yscale = IF a.yLogScale THEN "log" ELSE "linear",
                      !.xlim = IF a.xlim # <<>> THEN a.xlim ELSE @,
                      !.ylim = IF a.ylim # <<>> THEN a.ylim ELSE @,
                      !.xlabel = a.xLabel, !.ylabel = a.yLabel]
        figure  == [Subplots1 EXCEPT !.axes = <<axes, colorbar>>]
    IN  IF check = "IndexError" THEN
            [figs |-> Append(fg, Subplots1), files |-> fs,
             ret |-> Raised("IndexError")]
        ELSE IF check = "invalid" THEN
            [figs |-> Append(fg, Subplots1), files |-> fs,
             ret |-> Returned(ref)]
        ELSE IF ~ contourGridOk(a.Z) THEN
            [figs |-> Append(fg, Subplots1), files |-> fs,
             ret |-> Raised("IndexError")]
        ELSE IF Len(a.X) < 2 \/ Len(a.Y) < 2 THEN
            \* axes.contourf rejects a grid smaller than 2 x 2
            [figs |-> Append(fg, Subplots1), files |-> fs,
             ret |-> Raised("TypeError")]
        ELSE
            [figs |-> Append(fg, figure),
             files |-> IF Len(a.filename) > 0
                       THEN SaveFig(fs, a.filename, "png", figure)
                       ELSE fs,
             ret |-> Returned(ref)]

\* "for x, y, label in zip(scatterX, scatterY, labels)" and the like: the
\* triples up to the shortest of three lists.
Zip3(p, q, r) ==
    [k \in 1..Min2(Len(p), Min2(Len(q), Len(r))) |-> <<p[k], q[k], r[k]>>]

\* contour2Dscatter after "figure = contour2D(X, Y, Z, **kwargs)", whose
\* outcome is base: the points and their labels are drawn on the first axes.
contour2DscatterPlot(a, base) ==
    LET ref    == base.ret.fig
        notes  == IF a.labels # <<>>
                  THEN LET z == Zip3(a.scatterX, a.scatterY, a.labels)
                       IN  [k \in 1..Len(z) |->
                              [kind |-> "Annotation", text |-> z[k][3],
                               xy |-> <<z[k][1], z[k][2]>>]]
                  ELSE <<>>
        figure == [base.figs[ref] EXCEPT !.axes[1].artists = @
                     \o <<[kind |-> "PathCollection", xs |-> a.scatterX,
                           ys |-> a.scatterY, c |-> a.colors,
                           marker |-> a.marker, label |-> "None"]>>
                     \o notes]
    IN  IF base.ret.status = "raised" THEN base
        ELSE IF Len(a.scatterX) # Len(a.scatterY) THEN
            \* axes.scatter rejects x and y of different size
            [figs |-> base.figs, files |-> base.files,
             ret |-> Raised("ValueError")]
        ELSE
            [figs |-> [base.figs EXCEPT ![ref] = figure],
             files |-> IF Len(a.filename) > 0
                       THEN SaveFig(base.files, a.filename, "png", figure)
                       ELSE base.files,
             ret |-> Returned(ref)]

\* contour2Dscatter(X, Y, Z, scatterX, scatterY, colors, labels, ...,
\* **kwargs): the keyword arguments, filename included, go to contour2D.
contour2Dscatter(a, fg, fs) == contour2DscatterPlot(a, contour2D(a, fg, fs))

\* An argument that may be a list or a single value: [list, v].
ListArg(v) == [list |-> TRUE, v |-> v]

Scalar(v) == [list |-> FALSE, v |-> <<v>>]

\* "if type(x0) != list: x0 = [x0]"
asList(x0) == IF ~ x0.list THEN <<x0.v[1]>> ELSE x0.v

\* "if type(colors) != list: colors = [colors] * len(x0)"
broadcast(colors, n) == IF ~ colors.list THEN Repeat(colors.v[1], n) ELSE colors.v

\* The lines "for X, color, style in zip(x0, colors, styles)" draws with
\* axvline, for x0, colors and styles as contour2DVLine receives them.
contourVLines(x0, colors, styles) ==
    LET xs == asList(x0)
        z  == Zip3(xs, broadcast(colors, Len(xs)), broadcast(styles, Len(xs)))
    IN  [k \in 1..Len(z) |->
            [kind |-> "Line2D", x |-> z[k][1], color |-> z[k][2],
             linestyle |-> z[k][3]]]

\* contour2DVLine after "figure = contour2D(X, Y, Z, **kwargs)", whose
\* outcome is base: the lines are drawn on the first axes.
contour2DVLinePlot(a, base) ==
    LET ref    == base.ret.fig
        figure == [base.figs[ref] EXCEPT !.axes[1].artists = @
                     \o contourVLines(a.x0, a.colors, a.styles)]
    IN  IF base.ret.status = "raised" THEN base
        ELSE
            [figs |-> [base.figs EXCEPT ![ref] = figure],
             files |-> IF Len(a.filename) > 0
                       THEN SaveFig(base.files, a.filename, "png", figure)
                       ELSE base.files,
             ret |-> Returned(ref)]

\* contour2DVLine(X, Y, Z, x0, colors, styles, **kwargs)
contour2DVLine(a, fg, fs) == contour2DVLinePlot(a, contour2D(a, fg, fs))

\* Coordinate lists and data of contour2D: X and Y of n values, and a Z
\* whose inner lists have the given lengths, every entry distinct.
AxisOf(n) == [k \in 1..n |-> k]

ZOf(shape) == [p \in 1..Len(shape) |-> [q \in 1..shape[p] |-> 10 * p + q]]

Shapes == SeqsUpTo(0..MaxGrid, MaxGrid)

ContourDefaults ==
    [xLogScale : {FALSE}, yLogScale : {FALSE}, xlim : {<<>>}, ylim : {<<>>},
     fillRange : {<<>>}, xLabel : {"x"}, yLabel : {"y"},
     fillTickCount : {11}, fillLogScaleBase : {2}]

ContourData ==
    [X : {AxisOf(n) : n \in 0..MaxGrid}, Y : {AxisOf(n) : n \in 0..MaxGrid},
     Z : {ZOf(sh) : sh \in Shapes}, filename : Filenames]

MaxContour == 3

\* The data of the calls of contour2D itself: grids up to MaxContour values
\* a side, square or not, whose Z has inner lists of any lengths up to
\* MaxGrid, or n inner lists of length m of which the one at position p (if
\* there is one) is longer or shorter by d.
ContourGridData ==
    LET RaggedShape(n, m, p, d) ==
            [k \in 1..n |-> IF k = p THEN Max2(m + d, 0) ELSE m]
        ContourShapes ==
            Shapes \cup {RaggedShape(n, m, p, d) :
                            n \in 0..MaxContour, m \in 0..MaxContour,
                            p \in 1..MaxContour, d \in {-1, 0, 1}}
    IN  [X : {AxisOf(n) : n \in 0..MaxContour},
         Y : {AxisOf(n) : n \in 0..MaxContour},
         Z : {ZOf(sh) : sh \in ContourShapes}, filename : Filenames]

Contour2DArgs ==
    Join(Join(ContourDefaults, ContourGridData),
         [fn : {"contour2D"}, fillLabel : {"", "level"}, fillLogScale : BOOLEAN])

Contour2DscatterArgs ==
    Join(Join(ContourDefaults, ContourData),
         [fn : {"contour2Dscatter"}, fillLabel : {""}, fillLogScale : {FALSE},
          scatterX : {<<1>>, <<1, 2>>}, scatterY : {<<5, 6>>},
          colors : {<<>>}, labels : {<<>>, LabelsOf(1)}, marker : {"o"}])

MaxLines == 2

\* x0 as a number or a list of distinct numbers; colours and styles as a
\* single value (None included) or a list.
X0Args == {Scalar(7)} \cup {ListArg([k \in 1..n |-> 10 + k]) : n \in 0..MaxLines}

ColorArgs ==
    {Scalar("None"), Scalar("red")}
        \cup {ListArg(LabelsOf(n)) : n \in 0..MaxLines}

StyleArgs ==
    {Scalar("None"), Scalar("--")}
        \cup {ListArg([k \in 1..n |-> LabelNames[k + 2]]) : n \in 0..MaxLines}

Contour2DVLineArgs ==
    Join(Join(ContourDefaults,
              {d \in ContourData : Len(d.X) = MaxGrid /\ Len(d.Z) = MaxGrid}),
         [fn : {"contour2DVLine"}, fillLabel : {""}, fillLogScale : {FALSE},
          x0 : X0Args, colors : ColorArgs, styles : StyleArgs])

\* One call of contour2D, of contour2Dscatter, of contour2DVLine.
Contour2D ==
    /\ pc = "ready"
    /\ args.fn = "contour2D"
    /\ Finish(contour2D(args, figs, files))

Contour2Dscatter ==
    /\ pc = "ready"
    /\ args.fn = "contour2Dscatter"
    /\ Finish(contour2Dscatter(args, figs, files))

Contour2DVLine ==
    /\ pc = "ready"
    /\ args.fn = "contour2DVLine"
    /\ Finish(contour2DVLine(args, figs, files))

InitContour == InitWith(Contour2DArgs \cup Contour2DscatterArgs)

NextContour == Contour2D \/ Contour2Dscatter

SpecContour == InitContour /\ [][NextContour]_vars

(***************************************************************************)
(* DistPlotUtils.py                                                        *)
(***************************************************************************)

\* x = [X for X, mask in zip(x, filterFinite(x)) if mask], after the
\* optional transform.
histData(x, transform) ==
    LET x0 == IF transform # "None" THEN MapTransform(transform, x) ELSE x
    IN  Compress(x0, filterFinite(x0))

\* axes.hist(x, bins = binCount, color = color): the bars.
histBars(x, binCount, color) ==
    [kind |-> "Rectangle", values |-> x, bins |-> binCount, color |-> color]

\* hist(x, filename, transform, binCount, color, xlim, ylim)
hist(a, fg, fs) ==
    LET axes   == [NewAxes EXCEPT
                     !.artists = <<histBars(histData(a.x, a.transform),
                                            a.binCount, a.color)>>,
                     !.xlim = IF a.xlim # <<>> THEN a.xlim ELSE @,
                     !.ylim = IF a.ylim # <<>> THEN a.ylim ELSE @]
        figure == [Subplots1 EXCEPT !.axes = <<axes>>]
    IN  [figs |-> Append(fg, figure),
         files |-> IF Len(a.filename) > 0
                   THEN SaveFig(fs, a.filename, "png", figure)
                   ELSE fs,
         ret |-> Returned(Len(fg) + 1)]

\* The lines "for X, color, style in zip(x0, lineColors, lineStyles)" draws
\* with axvline, for x0, lineColors and lineStyles as histVLine receives them.
histVLines(x0, lineColors, lineStyles) ==
    LET xs == asList(x0)
        z  == Zip3(xs, broadcast(lineColors, Len(xs)),
                   broadcast(lineStyles, Len(xs)))
    IN  [k \in 1..Len(z) |->
            [kind |-> "Line2D", x |-> z[k][1], color |-> z[k][2],
             linestyle |-> z[k][3]]]

\* histVLine(x, x0, filename, transform, binCount, color, lineColors,
\* lineStyles, xlim, ylim)
histVLine(a, fg, fs) ==
    LET axes   == [NewAxes EXCEPT
                     !.artists = <<histBars(histData(a.x, a.transform),
                                            a.binCount, a.color)>>
                         \o histVLines(a.x0, a.lineColors, a.lineStyles),
                     !.xlim = IF a.xlim # <<>> THEN a.xlim ELSE @,
                     !.ylim = IF a.ylim # <<>> THEN a.ylim ELSE @]
        figure == [Subplots1 EXCEPT !.axes = <<axes>>]
    IN  [figs |-> Append(fg, figure),
         files |-> IF Len(a.filename) > 0
                   THEN SaveFig(fs, a.filename, "png", figure)
                   ELSE fs,
         ret |-> Returned(Len(fg) + 1)]

HistDefaults ==
    [binCount : {10}, color : {"None"}, xlim : {<<>>}, ylim : {<<>>}]

HistArgs ==
    Join(HistDefaults,
         [fn : {"hist"}, x : PointLists, transform : {"None", "log10"},
          filename : Filenames])

HistVLineArgs ==
    Join(HistDefaults,
         [fn : {"histVLine"}, x : {<<1, Inf>>}, transform : {"None"},
          filename : Filenames,
          x0 : X0Args, lineColors : ColorArgs, lineStyles : StyleArgs])

\* One call of hist, of histVLine.
Hist ==
    /\ pc = "ready"
    /\ args.fn = "hist"
    /\ Finish(hist(args, figs, files))

HistVLine ==
    /\ pc = "ready"
    /\ args.fn = "histVLine"
    /\ Finish(histVLine(args, figs, files))

InitVLine == InitWith(HistVLineArgs \cup Contour2DVLineArgs)

NextVLine == HistVLine \/ Contour2DVLine

SpecVLine == InitVLine /\ [][NextVLine]_vars

(***************************************************************************)
(* MapPlotUtils.py                                                         *)
(***************************************************************************)

\* "math.nan if W is None else W"
nanIfNone(W) == IF W = None THEN NaN ELSE W

\* The matrix handed to imshow when transpose is True:
\* [[math.nan if W is None else W for W in V] for V in Z]
heatmapRows(Z) ==
    [p \in 1..Len(Z) |-> [q \in 1..Len(Z[p]) |-> nanIfNone(Z[p][q])]]

\* A matrix built without exchanging rows and columns.
heatmapColumns_AsGiven(Z) ==
    [p \in 1..Len(Z) |-> [q \in 1..Len(Z[p]) |-> nanIfNone(Z[p][q])]]

\* The matrix handed to imshow when transpose is False:
\* [[math.nan if z[i] is None else z[i] for z in Z]
\*  for i in range(0, len(Z[0]))]
heatmapColumns(Z) ==
    [i \in 1..Len(Z[1]) |-> [p \in 1..Len(Z) |-> nanIfNone(Z[p][i])]]

\* The ticks of "set_xticks([i for i in range(0, len(X)) if X[i] is not
\* None], labels = [x for x in X if x is not None])"; None when X is None.
heatmapTicks(X) ==
    IF X = <<>> THEN <<>>
    ELSE LET at == SelectSeq([k \in 1..Len(X) |-> k],
                             LAMBDA k : X[k] # "None")
         IN  [k \in 1..Len(at) |-> <<at[k] - 1, X[at[k]]>>]

\* heatmap2D(Z, X, Y, filename, inverseX, inverseY, transpose, ...)
heatmap2D(a, fg, fs) ==
    LET ref    == Len(fg) + 1
        ragged == \E p \in 1..Len(a.Z) : Len(a.Z[p]) # Len(a.Z[1])
        short  == \E p \in 1..Len(a.Z) : Len(a.Z[p]) < Len(a.Z[1])
        rows   == IF a.transpose THEN heatmapRows(a.Z) ELSE heatmapColumns(a.Z)
        image  == [kind |-> "AxesImage", rows |-> rows,
                   norm |-> IF a.fillLogScale THEN "LogNorm" ELSE "None",
                   cmap |-> a.paletteName, bad |-> a.colorNA]
        colorbar == [NewAxes EXCEPT
                       !.artists = <<[kind |-> "Colorbar"]>>,
                       !.ylabel = IF a.fillLabel # "None" THEN a.fillLabel
                                  ELSE @]
        axes   == [NewAxes EXCEPT
                     !.artists = <<image>>,
                     !.ticks = [xticks |-> heatmapTicks(a.X),
                                yticks |-> heatmapTicks(a.Y),
                                xinverted |-> a.inverseX,
                                yinverted |-> a.inverseY],
                     !.xlabel = IF a.xLabel # "None" THEN a.xLabel ELSE @,
                     !.ylabel = IF a.yLabel # "None" THEN a.yLabel ELSE @]
        figure == [Subplots1 EXCEPT !.axes = <<axes, colorbar>>]
    IN  IF Len(a.Z) = 0 THEN
            [figs |-> Append(fg, Subplots1), files |-> fs, ret |-> Returned(ref)]
        ELSE IF Len(a.Z[1]) = 0 THEN
            [figs |-> Append(fg, Subplots1), files |-> fs, ret |-> Returned(ref)]
        ELSE IF ~ a.transpose /\ short THEN
            \* z[i] on an inner list shorter than the first
            [figs |-> Append(fg, Subplots1), files |-> fs,
             ret |-> Raised("IndexError")]
        ELSE IF a.transpose /\ ragged THEN
            \* axes.imshow rejects rows of different length (the class of the
            \* exception depends on the numpy version)
            [figs |-> Append(fg, Subplots1), files |-> fs,
             ret |-> Raised("ValueError")]
        ELSE
            [figs |-> Append(fg, figure),
             files |-> IF Len(a.filename) > 0
                       THEN SaveFig(fs, a.filename, "png", figure)
                       ELSE fs,
             ret |-> Returned(ref)]

\* The data of heatmap2D: inner lists of the given lengths, every entry
\* distinct, with the entries at the positions of nones set to None.
HeatZ(shape, nones) ==
    [p \in 1..Len(shape) |-> [q \in 1..shape[p] |->
        IF <<p, q>> \in nones THEN None ELSE 10 * p + q]]

HeatData ==
    {HeatZ(sh, {}) : sh \in Shapes}
        \cup {HeatZ(sh, {c}) : sh \in Shapes, c \in (1..MaxGrid) \X (1..MaxGrid)}
        \cup {HeatZ(sh, {<<1, 1>>, c}) :
                sh \in Shapes, c \in (1..MaxGrid) \X (1..MaxGrid)}

Heatmap2DArgs ==
    [fn : {"heatmap2D"}, Z : HeatData, X : {<<>>, <<"u", "None">>},
     Y : {<<>>}, filename : Filenames, inverseX : {FALSE}, inverseY : {TRUE},
     transpose : BOOLEAN, paletteName : {"viridis"}, colorNA : {"white"},
     xLabel : {"None"}, yLabel : {"None"}, fillLabel : {"None", "level"},
     fillLogScale : {FALSE}]

\* One call of heatmap2D.
Heatmap2D ==
    /\ pc = "ready"
    /\ args.fn = "heatmap2D"
    /\ Finish(heatmap2D(args, figs, files))

InitMap == InitWith(Heatmap2DArgs)

NextMap == Heatmap2D

SpecMap == InitMap /\ [][NextMap]_vars

(***************************************************************************)
(* Every helper, one call each.                                            *)
(***************************************************************************)
Init ==
    \/ InitSplit
    \/ InitScatter
    \/ InitWith(ScatterCurveArgs)
    \/ InitContour
    \/ InitVLine
    \/ InitWith(HistArgs)
    \/ InitMap

Next ==
    \/ SplitAxes
    \/ Scatter
    \/ ScatterCurve
    \/ Contour2D
    \/ Contour2Dscatter
    \/ Contour2DVLine
    \/ Hist
    \/ HistVLine
    \/ Heatmap2D

Spec == Init /\ [][Next]_vars

(***************************************************************************)
(* Properties of the file export (checked under Spec).                     *)
(***************************************************************************)

\* The call has returned.
CallReturned == pc = "done" /\ ret.status = "returned"

\* Exactly the file named by the filename argument has been written, and it
\* holds the returned figure.
SavedReturnedPlot ==
    /\ Cardinality(files) = 1
    /\ \A f \in files :
        f.name = args.filename /\ f.content = figs[ret.fig]

\* C4 (as claimed): a call of any of the nine helpers writes the target file
\* if and only if its filename is not empty, and the file then holds the
\* returned plot.
C4_SavedIffFilename ==
    CallReturned =>
        IF args.filename = "" THEN files = {} ELSE SavedReturnedPlot

\* The call left through one of the early returns that precede the export:
\* contour2D on dimensions that fail its check, heatmap2D on an empty Z,
\* splitAxes on a figure without axes.
ReturnedEarly ==
    CASE args.fn = "contour2D" ->
            \/ Len(args.X) = 0 \/ Len(args.Y) = 0
            \/ Len(args.X) # Len(args.Z) \/ Len(args.Y) # Len(args.Z[1])
      [] args.fn = "heatmap2D" -> Len(args.Z) = 0 \/ Len(args.Z[1]) = 0
      [] args.fn = "splitAxes" -> Len(args.figure.axes) = 0
      [] OTHER -> FALSE

\* C4 (amended): a call that returns writes the target file if and only if
\* its filename is not empty and it did not leave through an early return
\* (contour2D, heatmap2D and splitAxes return before the export on invalid
\* input); the file then holds the returned plot, and with an empty filename
\* no file is written.
C4_SavedUnlessEarlyReturn ==
    CallReturned =>
        IF args.filename = "" \/ ReturnedEarly
        THEN files = {}
        ELSE SavedReturnedPlot

\* contour2D returned early although a filename was given.
C4_Witness ==
    /\ CallReturned
    /\ args.fn = "contour2D"
    /\ args.filename # ""
    /\ ReturnedEarly
    /\ files = {}

(***************************************************************************)
(* Properties of contour2D (checked under SpecContour).                    *)
(***************************************************************************)

\* C8: contour2D checks its dimensions without raising: if len(X) == 0 or
\* len(Y) == 0 or len(X) != len(Z) or len(Y) != len(Z[0]) it returns a figure
\* on which nothing has been set or drawn, and otherwise it goes on to draw
\* (the contour is on the returned figure, unless drawing it raised).
C8_DimensionCheck ==
    (pc = "done" /\ args.fn = "contour2D") =>
        IF \/ Len(args.X) = 0 \/ Len(args.Y) = 0
           \/ Len(args.X) # Len(args.Z) \/ Len(args.Y) # Len(args.Z[1])
        THEN /\ ret = Returned(1)
             /\ figs = <<Subplots1>>
        ELSE \/ ret.status = "raised"
             \/ /\ ret = Returned(1)
                /\ figs[1].axes[1].artists[1].kind = "QuadContourSet"
                /\ Len(figs[1].axes) = 2

\* contour2D was called with an empty Z and a non-empty X and has returned.
C8_Witness ==
    /\ pc = "done" /\ args.fn = "contour2D"
    /\ args.Z = <<>> /\ Len(args.X) > 0 /\ Len(args.Y) > 0
    /\ ret.status = "returned"

(***************************************************************************)
(* Properties of heatmap2D (checked under SpecMap).                        *)
(***************************************************************************)

\* axes.imshow(M): the cell at horizontal index a and vertical index b
\* (1-based) shows M[b][a].
imshowCell(image, a, b) == image.rows[b][a]

Rectangular(Z) == \A p \in 1..Len(Z) : Len(Z[p]) = Len(Z[1])

\* C9: for a non-empty rectangular Z, heatmap2D renders the cell at
\* horizontal index a and vertical index b from Z[a][b] when transpose is
\* False and from Z[b][a] when it is True, None shown as NaN and every other
\* entry unchanged.
C9_HeatmapCells ==
    (pc = "done" /\ args.fn = "heatmap2D" /\ Len(args.Z) > 0
        /\ Len(args.Z[1]) > 0 /\ Rectangular(args.Z)) =>
        /\ ret.status = "returned"
        /\ LET image  == figs[ret.fig].axes[1].artists[1]
               width  == IF args.transpose THEN Len(args.Z[1]) ELSE Len(args.Z)
               height == IF args.transpose THEN Len(args.Z) ELSE Len(args.Z[1])
           IN  /\ image.kind = "AxesImage"
               /\ Len(image.rows) = height
               /\ \A b \in 1..height :
                    /\ Len(image.rows[b]) = width
                    /\ \A a \in 1..width :
                        LET v == IF args.transpose THEN args.Z[b][a]
                                 ELSE args.Z[a][b]
                        IN  imshowCell(image, a, b) =
                                IF v = None THEN NaN ELSE v

\* A heatmap of a Z that is not square and holds a None, not transposed.
C9_Witness ==
    /\ pc = "done" /\ args.fn = "heatmap2D" /\ ret.status = "returned"
    /\ ~ args.transpose
    /\ Len(args.Z) > 0 /\ Rectangular(args.Z)
    /\ Len(args.Z[1]) > Len(args.Z)
    /\ args.Z[1][1] = None
    /\ Len(figs[ret.fig].axes) = 2

(***************************************************************************)
(* Properties of the vertical lines (checked under SpecVLine).             *)
(***************************************************************************)

\* The vertical lines on the first axes of the returned figure.
LinesDrawn ==
    SelectSeq(figs[ret.fig].axes[1].artists, LAMBDA t : t.kind = "Line2D")

VLineCall ==
    /\ pc = "done"
    /\ args.fn \in {"histVLine", "contour2DVLine"}
    /\ ret.status = "returned"

\* The x0, colour and style arguments of the call.
ArgX0 == IF args.x0.list THEN args.x0.v ELSE <<args.x0.v[1]>>

ArgColors == IF args.fn = "histVLine" THEN args.lineColors ELSE args.colors

ArgStyles == IF args.fn = "histVLine" THEN args.lineStyles ELSE args.styles

\* The k-th entry of a colour or style argument: the single value, the k-th
\* element of the list, or "missing" beyond the end of the list.
EntryAt(arg, k) ==
    IF ~ arg.list THEN arg.v[1]
    ELSE IF k <= Len(arg.v) THEN arg.v[k] ELSE "missing"

\* The k-th line is at x0[k] with the k-th colour and the k-th style.
LineMatches(k) ==
    /\ LinesDrawn[k].x = ArgX0[k]
    /\ LinesDrawn[k].color = EntryAt(ArgColors, k)
    /\ LinesDrawn[k].linestyle = EntryAt(ArgStyles, k)

\* C10 (as claimed): exactly one vertical line per element of x0, in order,
\* the k-th with the k-th colour and style, for every combination of x0,
\* colour list and style list, shorter lists included.
C10_OneLinePerX0 ==
    VLineCall =>
        /\ Len(LinesDrawn) = Len(ArgX0)
        /\ \A k \in 1..Len(LinesDrawn) : LineMatches(k)

(***************************************************************************)
(* cloneArtist called on its own (checked under SpecClone).                *)
(***************************************************************************)

\* The axes that may be handed to cloneArtist: fresh, or holding a line.
CloneTargets ==
    {Subplots1,
     [Subplots1 EXCEPT !.axes[1].artists = <<Artist("Line2D", 0)>>]}

\* cloneArtist(artist, axes): an artist of any class, and axes either the
\* first axes of the figure figs[1] (TRUE) or None (FALSE).
CloneArgs ==
    [fn : {"cloneArtist"},
     artist : {Artist(kind, d) : kind \in ArtistKinds, d \in 0..MaxArtists},
     axes : BOOLEAN]

InitClone ==
    /\ pc = "ready"
    /\ args \in CloneArgs
    /\ figs \in {<<t>> : t \in CloneTargets}
    /\ files = {}
    /\ ret = NoRet

\* One call of cloneArtist.  A clone made through axes.scatter is on the
\* axes when the call returns; the other clones are added to no axes.
CloneArtist ==
    /\ pc = "ready"
    /\ args.fn = "cloneArtist"
    /\ LET r == cloneArtist(args.artist, 1, args.axes)
       IN  /\ figs' = IF r.added
                      THEN [figs EXCEPT ![1].axes[1].artists = @ \o <<r.artist>>]
                      ELSE figs
           /\ ret' = IF r.exc # "" THEN Raised(r.exc)
                     ELSE [status |-> "returned", artist |-> r.artist]
    /\ pc' = "done"
    /\ UNCHANGED <<args, files>>

NextClone == CloneArtist

SpecClone == InitClone /\ [][NextClone]_vars

CloneCalled == pc = "done" /\ args.fn = "cloneArtist"

\* The artist is of one of the six classes cloneArtist handles.
Clonable(artist) ==
    \E X \in {"PathCollection", "Axis", "Line2D", "Rectangle", "Spine", "Text"} :
        IsInstance(artist.kind, X)

\* C11 (as claimed): cloneArtist raises TypeError exactly for the artists
\* that are of none of the six classes; for every artist of one of them it
\* returns a new artist of the same class, also when axes is None, and the
\* clone is then attached to no axes.
C11_CloneOrTypeError ==
    CloneCalled =>
        IF Clonable(args.artist)
        THEN /\ ret.status = "returned"
             /\ ret.artist # args.artist
             /\ ret.artist.kind = args.artist.kind
             /\ ~ args.axes => figs \in {<<t>> : t \in CloneTargets}
        ELSE ret = Raised("TypeError")

(***************************************************************************)
(* The subplot index of splitAxes (checked under SpecSplit).               *)
(***************************************************************************)

\* splitAxes was called on a figure with axes.
SplitCalled ==
    pc = "done" /\ args.fn = "splitAxes" /\ Len(args.figure.axes) > 0

\* The grid cells (column i, row j) of a grid of R rows and C columns.
Cells(R, C) == (0..(C - 1)) \X (0..(R - 1))

\* The subplots the loops of splitAxes address (1-based positions).
Addressed(R, C) ==
    {subplotIndex(i, j, R, C) + 1 : i \in 0..(C - 1), j \in 0..(R - 1)}

\* C12 (as claimed): for rowCount, columnCount >= 1 the index
\* i + j * rowCount of every grid cell is within 0 .. rowCount*columnCount - 1
\* and distinct cells have distinct indices; splitAxes never fails with an
\* IndexError and every subplot of the new figure is addressed.
C12_IndexWithinGrid ==
    SplitCalled =>
        LET C == Max2(Len(args.xSubranges), 1)
            R == Max2(Len(args.ySubranges), 1)
        IN  /\ \A c \in Cells(R, C) :
                 subplotIndex(c[1], c[2], R, C) \in 0..(R * C - 1)
            /\ \A c, d \in Cells(R, C) :
                 subplotIndex(c[1], c[2], R, C) = subplotIndex(d[1], d[2], R, C)
                    => c = d
            /\ ret # Raised("IndexError")
            /\ ret.status = "returned" => Addressed(R, C) = 1..(R * C)

(***************************************************************************)
(* The grid contour2D hands to contourf (checked under SpecContour).       *)
(***************************************************************************)

\* contour2D was called on input that passes its dimension check.
ContourValid ==
    /\ pc = "done" /\ args.fn = "contour2D"
    /\ Len(args.X) > 0 /\ Len(args.Y) > 0
    /\ Len(args.X) = Len(args.Z) /\ Len(args.Y) = Len(args.Z[1])

\* The contour drawn on the returned figure has len(Y) rows of len(X)
\* entries, the entry [b][a] being Z[a][b].
GridIsTranspose ==
    LET grid == figs[ret.fig].axes[1].artists[1].grid
    IN  /\ Len(grid) = Len(args.Y)
        /\ \A b \in 1..Len(args.Y) :
             /\ Len(grid[b]) = Len(args.X)
             /\ \A a \in 1..Len(args.X) : grid[b][a] = args.Z[a][b]

\* C13 (as claimed): for every input that passes the validation of
\* contour2D, also a Z whose inner lists are not all of length len(Y), the
\* grid is built (no IndexError) and the grid drawn has len(Y) rows and
\* len(X) columns with entry [b][a] equal to Z[a][b].
C13_GridForEveryValidZ ==
    ContourValid =>
        /\ ret # Raised("IndexError")
        /\ ret.status = "returned" => GridIsTranspose

\* C13 (amended): for input that passes the validation, if no inner list of
\* Z is shorter than len(Y) the grid is built and the grid drawn has len(Y)
\* rows and len(X) columns with entry [b][a] equal to Z[a][b]; if some inner
\* list is shorter than len(Y), contour2D raises IndexError.
C13_GridUnlessShortRow ==
    ContourValid =>
        IF \A a \in 1..Len(args.Z) : Len(args.Z[a]) >= Len(args.Y)
        THEN /\ ret # Raised("IndexError")
             /\ ret.status = "returned" => GridIsTranspose
        ELSE ret = Raised("IndexError")

\* contour2D has drawn a grid that is not square from a Z of which an inner
\* list is longer than len(Y): the grid has len(Y) rows of len(X) entries
\* and holds Z[2][1] in its first row.
C13_Witness ==
    /\ ContourValid
    /\ ret.status = "returned"
    /\ Len(args.X) # Len(args.Y)
    /\ \E a \in 1..Len(args.Z) : Len(args.Z[a]) > Len(args.Y)
    /\ Len(figs[ret.fig].axes[1].artists[1].grid) = Len(args.Y)
    /\ Len(figs[ret.fig].axes[1].artists[1].grid[1]) = Len(args.X)
    /\ args.Z[1][2] # args.Z[2][1]
    /\ figs[ret.fig].axes[1].artists[1].grid[1][2] = args.Z[2][1]

(***************************************************************************)
(* The width and height ratios of splitAxes (checked under SpecSplit).     *)
(***************************************************************************)

\* The list completed extends the list given, shorter than count, by
\* entries that are each (1 - sum(given)) / (count - len(given)): it keeps
\* the given ratios as a prefix, has count entries and sums to 1.
CompletedFrom(given, completed, count) ==
    /\ Len(completed) = count
    /\ SubSeq(completed, 1, Len(given)) = given
    /\ count - Len(given) # 0
    /\ \A k \in (Len(given) + 1)..count :
         completed[k] = DoubleDivInt(DoubleSub(DoubleOfInt(1),
                                               DoubleSum(given)),
                                     count - Len(given))
    /\ DoubleSum(completed) = DoubleOfInt(1)

\* The ratios of the returned figure complete the lists given (the height
\* ratios are handed to the figure in reverse order).
RatiosCompleted ==
    LET C == Max2(Len(args.xSubranges), 1)
        R == Max2(Len(args.ySubranges), 1)
    IN  /\ Len(args.xRatio) < C =>
             CompletedFrom(args.xRatio, figs[2].width_ratios, C)
        /\ Len(args.yRatio) < R =>
             CompletedFrom(args.yRatio, Reverse(figs[2].height_ratios), R)

\* The k-th vertical subrange is the y-range of every subplot in the grid row
\* whose height is the k-th height ratio, i.e. the row R - k from the top.
RatioRowHasSubrange(k) ==
    LET R == Len(args.ySubranges)
    IN  \A i \in 0..(figs[2].ncols - 1) :
            SubplotAt(figs[2], i, R - k).ylim = args.ySubranges[k]

\* C14 (as claimed): a ratio list shorter than the number of columns (rows)
\* is completed by entries (1 - sum) / (count - len), so that it keeps the
\* given ratios as a prefix, has count entries and sums to 1, the divisor
\* never being zero; and the k-th height ratio is applied to the same row as
\* the k-th entry of ySubranges.
C14_RatiosAndRows ==
    SplitReturned =>
        /\ RatiosCompleted
        /\ \A k \in 1..Len(args.ySubranges) : RatioRowHasSubrange(k)

====
